---- MODULE Spec2Model ----
(***************************************************************************)
(* Model of src/arxiv_mcp_server/tools/download.py.                        *)
(*                                                                         *)
(* Two kinds of process share the module-level dictionary                  *)
(* conversion_statuses and the storage directory:                          *)
(*   - the event loop, which runs handle_download.  The coroutine has no   *)
(*     await, so one request runs to its return before the next begins;    *)
(*   - one worker thread per started conversion (asyncio.to_thread), which *)
(*     runs convert_pdf_to_markdown and interleaves with the event loop    *)
(*     statement by statement.                                             *)
(* Every step below holds at most one access that races with the other     *)
(* kind of process.                                                        *)
(***************************************************************************)
EXTENDS Naturals, Sequences, FiniteSets, TLC

VARIABLES
    conversion_statuses, \* dict paper_id -> ConversionStatus (a function on the keys present)
    md,                  \* the .md file of each paper: "absent", "partial", "complete"
    pdf,                 \* the .pdf file of each paper exists
    remote,              \* what arXiv knows of each paper: "known", "unknown"
    now,                 \* the value the next datetime.now() returns
    convPc,              \* position of the worker thread of each paper
    exc,                 \* the worker's caught exceptions: e (HTML path), pdf_e (PDF path)
    hpc,                 \* position of the event loop inside handle_download
    hreq,                \* arguments of the request being handled
    hres,                \* fields of the answer read so far
    result,              \* what the last finished call gave its caller
    started              \* per paper: Jobs created, fetches begun, conversions handed off

vars == <<conversion_statuses, md, pdf, remote, now, convPc, exc,
          hpc, hreq, hres, result, started>>

----------------------------------------------------------------------------
(* Inputs *)

Ids == {"2101.00001", "9999.99999"}

\* arguments without the required key "paper_id"
NoPaperId == "<missing>"

Requests == [paper_id : Ids \cup {NoPaperId}, check_status : BOOLEAN]

\* Optional[...] fields: None is the empty sequence, a value v is <<v>>
None == <<>>
Some(v) == <<v>>

----------------------------------------------------------------------------
(* ConversionStatus *)

ConversionStatus(paper_id, status, started_at) ==
    [paper_id |-> paper_id, status |-> status, started_at |-> started_at,
     completed_at |-> None, error |-> None]

Terminal == {"success", "error"}

\* conversion_statuses[paper_id] = job, adding the key when it is new
Put(d, k, v) == [x \in (DOMAIN d) \cup {k} |-> IF x = k THEN v ELSE d[x]]

----------------------------------------------------------------------------
(* get_paper_path(...).exists() for the .md file *)

MdExists(id) == md[id] # "absent"

----------------------------------------------------------------------------
(* The answers of handle_download: the JSON object of the TextContent.     *)
(* A key the object does not carry is Absent; null is Json(None).          *)

Absent == <<>>
Json(opt) == IF opt = None THEN <<"null">> ELSE <<"value", opt[1]>>
Iso(t) == <<"isoformat", t>>
ResourceUri(id) == <<"file://", id, ".md">>

Answer(req, status, message) ==
    [req |-> req, status |-> status, message |-> message, resource_uri |-> Absent,
     started_at |-> Absent, completed_at |-> Absent, error |-> Absent]

\* no call has finished since the current one began
NoResult == Answer([paper_id |-> NoPaperId, check_status |-> FALSE], "<none>", <<>>)

\* an exception left handle_download
Raised(req, e) == Answer(req, "<raised>", <<e.type, e.msg>>)

\* lines 153-164
PaperReady(req) ==
    [Answer(req, "success", <<"Paper is ready">>)
        EXCEPT !.resource_uri = ResourceUri(req.paper_id)]

\* lines 165-175
NoJobKnown(req) == Answer(req, "unknown", <<"No download or conversion in progress">>)

\* lines 177-194
StatusReport(req, job, r, msgStatus) ==
    [Answer(req, r.status, <<"Paper conversion ", msgStatus>>)
        EXCEPT !.started_at = Iso(job.started_at),
               !.completed_at = Json(r.completed_at),
               !.error = Json(r.error)]

\* lines 198-209
AlreadyAvailable(req) ==
    [Answer(req, "success", <<"Paper already available">>)
        EXCEPT !.resource_uri = ResourceUri(req.paper_id)]

\* the in-progress answer with the status written out instead of read from the Job
InProgressAlwaysConverting(req, job, r, msgStatus) ==
    [Answer(req, "converting", <<"Paper conversion ", "converting">>)
        EXCEPT !.started_at = Iso(job.started_at)]

\* lines 214-225
InProgress(req, job, r, msgStatus) ==
    [Answer(req, r.status, <<"Paper conversion ", msgStatus>>)
        EXCEPT !.started_at = Iso(job.started_at)]

\* lines 249-260
ConversionStarted(req, job) ==
    [Answer(req, "converting", <<"Paper downloaded, conversion started">>)
        EXCEPT !.started_at = Iso(job.started_at)]

\* lines 262-273
NotFound(req) == Answer(req, "error", <<"Paper ", req.paper_id, " not found on arXiv">>)

\* lines 274-280
ErrorResult(req, e) == Answer(req, "error", <<"Error: ", e.msg>>)

(* Exceptions raised inside the try block of handle_download *)
KeyError == [type |-> "KeyError", msg |-> "'paper_id'"]
StopIteration == [type |-> "StopIteration", msg |-> ""]
FetchErrors == {[type |-> "HTTPError", msg |-> "arXiv unreachable"]}

\* handle_download with the clause "except Exception" left out
ExceptOnlyStopIteration(req, e) ==
    IF e.type = "StopIteration" THEN NotFound(req) ELSE Raised(req, e)

\* the except clauses of handle_download (lines 262-280)
Except(req, e) ==
    IF e.type = "StopIteration" THEN NotFound(req) ELSE ErrorResult(req, e)

\* the status values an answer carries: those of a Job (line 30), "unknown" (line 170)
ResultStatuses == {"success", "error", "unknown", "downloading", "converting"}

NoFields == [status |-> "", completed_at |-> None, error |-> None]

----------------------------------------------------------------------------
(* handle_download, on the event loop *)

world == <<conversion_statuses, md, pdf, remote, now, convPc, exc, started>>

NoRequest == [paper_id |-> NoPaperId, check_status |-> FALSE]

\* return [types.TextContent(type="text", text=json.dumps(r))]
Return(r) ==
    /\ result' = r
    /\ hpc' = "idle"
    /\ hreq' = NoRequest
    /\ hres' = NoFields

\* lines 142-149: the call begins, the arguments are read
Call(req) ==
    /\ hpc = "idle"
    /\ IF req.paper_id = NoPaperId
       THEN Return(Except(req, KeyError))
       ELSE /\ hreq' = req
            /\ hpc' = IF req.check_status THEN "check" ELSE "full"
            /\ result' = NoResult
            /\ UNCHANGED hres
    /\ UNCHANGED world

\* the check-only branch without the look at the .md file (lines 152-164 left out)
CheckLookupNoFile ==
    /\ hpc = "check"
    /\ LET id == hreq.paper_id IN
       IF id \notin DOMAIN conversion_statuses
       THEN Return(NoJobKnown(hreq))
       ELSE /\ hres' = [hres EXCEPT !.status = conversion_statuses[id].status]
            /\ hpc' = "check_completed"
            /\ UNCHANGED <<hreq, result>>
    /\ UNCHANGED world

\* lines 150-182: check_status, the registry lookup and the first read of the Job
CheckLookup ==
    /\ hpc = "check"
    /\ LET id == hreq.paper_id IN
       IF id \notin DOMAIN conversion_statuses
       THEN IF MdExists(id) THEN Return(PaperReady(hreq)) ELSE Return(NoJobKnown(hreq))
       ELSE /\ hres' = [hres EXCEPT !.status = conversion_statuses[id].status]
            /\ hpc' = "check_completed"
            /\ UNCHANGED <<hreq, result>>
    /\ UNCHANGED world

\* lines 183-188
CheckCompleted ==
    /\ hpc = "check_completed"
    /\ hres' = [hres EXCEPT !.completed_at = conversion_statuses[hreq.paper_id].completed_at]
    /\ hpc' = "check_error"
    /\ UNCHANGED <<hreq, result>>
    /\ UNCHANGED world

\* line 189
CheckError ==
    /\ hpc = "check_error"
    /\ hres' = [hres EXCEPT !.error = conversion_statuses[hreq.paper_id].error]
    /\ hpc' = "check_message"
    /\ UNCHANGED <<hreq, result>>
    /\ UNCHANGED world

\* lines 177-194: the message reads status.status again, the answer is returned
CheckMessage ==
    /\ hpc = "check_message"
    /\ LET job == conversion_statuses[hreq.paper_id] IN
       Return(StatusReport(hreq, job, hres, job.status))
    /\ UNCHANGED world

\* the full request without the short cut of lines 197-209
FullExistsSkipped ==
    /\ hpc = "full"
    /\ hpc' = "full_lookup"
    /\ UNCHANGED <<hreq, hres, result>>
    /\ UNCHANGED world

\* lines 196-209: the paper is already converted
FullExists ==
    /\ hpc = "full"
    /\ IF MdExists(hreq.paper_id)
       THEN Return(AlreadyAvailable(hreq))
       ELSE /\ hpc' = "full_lookup"
            /\ UNCHANGED <<hreq, hres, result>>
    /\ UNCHANGED world

\* a failed Job does not count as in progress: the next full request starts over
AlreadyInProgressUnlessFailed(id) ==
    /\ id \in DOMAIN conversion_statuses
    /\ conversion_statuses[id].status # "error"

\* "in progress" taken as: a Job that is converting
AlreadyInProgressOnlyConverting(id) ==
    /\ id \in DOMAIN conversion_statuses
    /\ conversion_statuses[id].status = "converting"

\* line 212
AlreadyInProgress(id) == id \in DOMAIN conversion_statuses

\* lines 211-219: already in progress, the first read of the Job
FullLookup ==
    /\ hpc = "full_lookup"
    /\ AlreadyInProgress(hreq.paper_id)
    /\ hres' = [hres EXCEPT !.status = conversion_statuses[hreq.paper_id].status]
    /\ hpc' = "full_message"
    /\ UNCHANGED <<hreq, result>>
    /\ UNCHANGED world

\* lines 214-225
FullMessage ==
    /\ hpc = "full_message"
    /\ LET job == conversion_statuses[hreq.paper_id] IN
       Return(InProgress(hreq, job, hres, job.status))
    /\ UNCHANGED world

\* lines 227-234: start a new download, initialize the status
FullCreate ==
    /\ hpc = "full_lookup"
    /\ ~AlreadyInProgress(hreq.paper_id)
    /\ LET id == hreq.paper_id IN
       /\ conversion_statuses' =
              Put(conversion_statuses, id, ConversionStatus(id, "downloading", now))
       /\ started' = [started EXCEPT ![id].jobs = @ + 1]
    /\ now' = now + 1
    /\ hpc' = "fetch"
    /\ UNCHANGED <<md, pdf, remote, convPc, exc, hreq, hres, result>>

\* the fetch with a failure recorded in the Job: status "error", completed_at, error
FetchFailureRecorded ==
    /\ hpc = "fetch"
    /\ LET id == hreq.paper_id IN
       /\ started' = [started EXCEPT ![id].fetches = @ + 1]
       /\ \/ /\ remote[id] = "unknown"
             /\ Return(Except(hreq, StopIteration))
             /\ conversion_statuses' =
                    [conversion_statuses EXCEPT ![id].status = "error",
                                                ![id].completed_at = Some(now),
                                                ![id].error = Some("not found")]
             /\ UNCHANGED pdf
          \/ /\ remote[id] = "known"
             /\ \E e \in FetchErrors :
                    /\ Return(Except(hreq, e))
                    /\ conversion_statuses' =
                           [conversion_statuses EXCEPT ![id].status = "error",
                                                       ![id].completed_at = Some(now),
                                                       ![id].error = Some(e.msg)]
             /\ UNCHANGED pdf
          \/ /\ remote[id] = "known"
             /\ pdf' = [pdf EXCEPT ![id] = TRUE]
             /\ hpc' = "start"
             /\ UNCHANGED <<hreq, hres, result, conversion_statuses>>
    /\ UNCHANGED <<md, remote, now, convPc, exc>>

\* lines 236-238 with the except clauses they reach: the search and the download
Fetch ==
    /\ hpc = "fetch"
    /\ LET id == hreq.paper_id IN
       /\ started' = [started EXCEPT ![id].fetches = @ + 1]
       /\ \/ /\ remote[id] = "unknown"
             /\ Return(Except(hreq, StopIteration))
             /\ UNCHANGED pdf
          \/ /\ remote[id] = "known"
             /\ \E e \in FetchErrors : Return(Except(hreq, e))
             /\ UNCHANGED pdf
          \/ /\ remote[id] = "known"
             /\ pdf' = [pdf EXCEPT ![id] = TRUE]
             /\ hpc' = "start"
             /\ UNCHANGED <<hreq, hres, result>>
    /\ UNCHANGED <<conversion_statuses, md, remote, now, convPc, exc>>

\* lines 240-260 without line 242: the Job keeps the status "downloading"
StartConversionKeepsStatus ==
    /\ hpc = "start"
    /\ LET id == hreq.paper_id IN
       /\ convPc' = [convPc EXCEPT ![id] = "queued"]
       /\ started' = [started EXCEPT ![id].conversions = @ + 1]
       /\ Return(ConversionStarted(hreq, conversion_statuses[id]))
    /\ UNCHANGED <<conversion_statuses, md, pdf, remote, now, exc>>

\* lines 240-260 with the coroutine of line 246 never scheduled (no create_task)
StartConversionNeverScheduled ==
    /\ hpc = "start"
    /\ LET id == hreq.paper_id IN
       /\ conversion_statuses' = [conversion_statuses EXCEPT ![id].status = "converting"]
       /\ started' = [started EXCEPT ![id].conversions = @ + 1]
       /\ Return(ConversionStarted(hreq, conversion_statuses'[id]))
    /\ UNCHANGED <<md, pdf, remote, now, exc, convPc>>

\* lines 240-260: update the status, start the conversion in a thread
StartConversion ==
    /\ hpc = "start"
    /\ LET id == hreq.paper_id IN
       /\ conversion_statuses' = [conversion_statuses EXCEPT ![id].status = "converting"]
       /\ convPc' = [convPc EXCEPT ![id] = "queued"]
       /\ started' = [started EXCEPT ![id].conversions = @ + 1]
       /\ Return(ConversionStarted(hreq, conversion_statuses'[id]))
    /\ UNCHANGED <<md, pdf, remote, now, exc>>

----------------------------------------------------------------------------
(* convert_pdf_to_markdown, on a worker thread *)

loop == <<hpc, hreq, hres, result>>

\* str(e) of what the two conversion paths can raise
HtmlFetchFailed == "HTML fetch or markdownify failed"
MdOpenFailed == "cannot open the .md file"
MdWriteFailed == "cannot write the .md file"
PdfNotFound == "PDF file not found"
PdfExtractFailed == "to_markdown failed"

\* the status updates without "if status:"
HasStatusUnchecked(id) == TRUE

\* status = conversion_statuses.get(paper_id); if status: (lines 95-96, 125-126, 135-136)
HasStatus(id) == id \in DOMAIN conversion_statuses

\* the status stored as a new object: conversion_statuses[paper_id] = ConversionStatus(...)
SetStatusReplacesJob(id, s) ==
    [conversion_statuses EXCEPT ![id] = ConversionStatus(id, s, now)]

SetStatus(id, s) == [conversion_statuses EXCEPT ![id].status = s]
SetCompletedAt(id, t) == [conversion_statuses EXCEPT ![id].completed_at = Some(t)]
SetError(id, err) == [conversion_statuses EXCEPT ![id].error = err]

\* except Exception as e (line 102): the HTML path is left for the PDF path
HtmlFails(id, msg) ==
    /\ exc' = [exc EXCEPT ![id].e = Some(msg)]
    /\ convPc' = [convPc EXCEPT ![id] = "pdf_check"]

\* except Exception as pdf_e (line 133)
PdfFails(id, msg) ==
    /\ exc' = [exc EXCEPT ![id].pdf_e = Some(msg)]
    /\ convPc' = [convPc EXCEPT ![id] = "fail_status"]

\* lines 66-89: the thread starts, fetches the HTML and converts it
HtmlFetch(id) ==
    /\ convPc[id] = "queued"
    /\ \/ /\ convPc' = [convPc EXCEPT ![id] = "html_open"]
          /\ UNCHANGED exc
       \/ HtmlFails(id, HtmlFetchFailed)
    /\ UNCHANGED <<conversion_statuses, md, pdf, remote, now, started, loop>>

\* lines 91-92: open(md_path, "w") creates or truncates the file
HtmlOpen(id) ==
    /\ convPc[id] = "html_open"
    /\ \/ /\ md' = [md EXCEPT ![id] = "partial"]
          /\ convPc' = [convPc EXCEPT ![id] = "html_write"]
          /\ UNCHANGED exc
       \/ /\ HtmlFails(id, MdOpenFailed)
          /\ UNCHANGED md
    /\ UNCHANGED <<conversion_statuses, pdf, remote, now, started, loop>>

\* line 93: f.write(markdown) and the close of the with block
HtmlWrite(id) ==
    /\ convPc[id] = "html_write"
    /\ \/ /\ md' = [md EXCEPT ![id] = "complete"]
          /\ convPc' = [convPc EXCEPT ![id] = "html_status"]
          /\ UNCHANGED exc
       \/ /\ HtmlFails(id, MdWriteFailed)
          /\ UNCHANGED md
    /\ UNCHANGED <<conversion_statuses, pdf, remote, now, started, loop>>

\* lines 95-97
HtmlStatus(id) ==
    /\ convPc[id] = "html_status"
    /\ IF HasStatus(id)
       THEN /\ conversion_statuses' = SetStatus(id, "success")
            /\ convPc' = [convPc EXCEPT ![id] = "html_completed"]
       ELSE /\ convPc' = [convPc EXCEPT ![id] = "done"]
            /\ UNCHANGED conversion_statuses
    /\ UNCHANGED <<md, pdf, remote, now, exc, started, loop>>

\* line 98
HtmlCompleted(id) ==
    /\ convPc[id] = "html_completed"
    /\ conversion_statuses' = SetCompletedAt(id, now)
    /\ now' = now + 1
    /\ convPc' = [convPc EXCEPT ![id] = "done"]
    /\ UNCHANGED <<md, pdf, remote, exc, started, loop>>

\* lines 105-108
PdfCheck(id) ==
    /\ convPc[id] = "pdf_check"
    /\ IF pdf[id]
       THEN /\ convPc' = [convPc EXCEPT ![id] = "pdf_extract"]
            /\ UNCHANGED exc
       ELSE PdfFails(id, PdfNotFound)
    /\ UNCHANGED <<conversion_statuses, md, pdf, remote, now, started, loop>>

\* lines 110-117
PdfExtract(id) ==
    /\ convPc[id] = "pdf_extract"
    /\ \/ /\ pdf[id]
          /\ convPc' = [convPc EXCEPT ![id] = "pdf_open"]
          /\ UNCHANGED exc
       \/ PdfFails(id, PdfExtractFailed)
    /\ UNCHANGED <<conversion_statuses, md, pdf, remote, now, started, loop>>

\* lines 119-121
PdfOpen(id) ==
    /\ convPc[id] = "pdf_open"
    /\ \/ /\ md' = [md EXCEPT ![id] = "partial"]
          /\ convPc' = [convPc EXCEPT ![id] = "pdf_write"]
          /\ UNCHANGED exc
       \/ /\ PdfFails(id, MdOpenFailed)
          /\ UNCHANGED md
    /\ UNCHANGED <<conversion_statuses, pdf, remote, now, started, loop>>

\* line 122
PdfWrite(id) ==
    /\ convPc[id] = "pdf_write"
    /\ \/ /\ md' = [md EXCEPT ![id] = "complete"]
          /\ convPc' = [convPc EXCEPT ![id] = "pdf_status"]
          /\ UNCHANGED exc
       \/ /\ PdfFails(id, MdWriteFailed)
          /\ UNCHANGED md
    /\ UNCHANGED <<conversion_statuses, pdf, remote, now, started, loop>>

\* lines 124-127
PdfStatus(id) ==
    /\ convPc[id] = "pdf_status"
    /\ IF HasStatus(id)
       THEN /\ conversion_statuses' = SetStatus(id, "success")
            /\ convPc' = [convPc EXCEPT ![id] = "pdf_completed"]
       ELSE /\ convPc' = [convPc EXCEPT ![id] = "done"]
            /\ UNCHANGED conversion_statuses
    /\ UNCHANGED <<md, pdf, remote, now, exc, started, loop>>

\* line 128
PdfCompleted(id) ==
    /\ convPc[id] = "pdf_completed"
    /\ conversion_statuses' = SetCompletedAt(id, now)
    /\ now' = now + 1
    /\ convPc' = [convPc EXCEPT ![id] = "pdf_error"]
    /\ UNCHANGED <<md, pdf, remote, exc, started, loop>>

\* line 129 keeping the HTML path's failure: status.error = str(e)
ErrorAfterPdfSuccessKeepsHtml(id) == exc[id].e

\* the value line 129 stores in status.error
ErrorAfterPdfSuccess(id) == None

\* line 129
PdfError(id) ==
    /\ convPc[id] = "pdf_error"
    /\ conversion_statuses' = SetError(id, ErrorAfterPdfSuccess(id))
    /\ convPc' = [convPc EXCEPT ![id] = "done"]
    /\ UNCHANGED <<md, pdf, remote, now, exc, started, loop>>

\* lines 133-137
FailStatus(id) ==
    /\ convPc[id] = "fail_status"
    /\ IF HasStatus(id)
       THEN /\ conversion_statuses' = SetStatus(id, "error")
            /\ convPc' = [convPc EXCEPT ![id] = "fail_completed"]
       ELSE /\ convPc' = [convPc EXCEPT ![id] = "done"]
            /\ UNCHANGED conversion_statuses
    /\ UNCHANGED <<md, pdf, remote, now, exc, started, loop>>

\* line 138
FailCompleted(id) ==
    /\ convPc[id] = "fail_completed"
    /\ conversion_statuses' = SetCompletedAt(id, now)
    /\ now' = now + 1
    /\ convPc' = [convPc EXCEPT ![id] = "fail_error"]
    /\ UNCHANGED <<md, pdf, remote, exc, started, loop>>

\* line 139 reporting the outer exception: status.error = str(e)
ErrorAfterFailureFromHtml(id) == exc[id].e

\* the value line 139 stores in status.error: str(pdf_e)
ErrorAfterFailure(id) == exc[id].pdf_e

\* line 139
FailError(id) ==
    /\ convPc[id] = "fail_error"
    /\ conversion_statuses' = SetError(id, ErrorAfterFailure(id))
    /\ convPc' = [convPc EXCEPT ![id] = "done"]
    /\ UNCHANGED <<md, pdf, remote, now, exc, started, loop>>

----------------------------------------------------------------------------
(* The storage directory is shared with the rest of the machine: the raw   *)
(* PDF can be gone when line 107 looks for it.  The worker reads the file  *)
(* at lines 107 and 112 only, so a removal at any other moment has the     *)
(* effect of one between the hand-off and line 107; a removal between the  *)
(* two reads is a failure of to_markdown (PdfExtract).                     *)

PdfRemoved(id) ==
    /\ pdf[id]
    /\ convPc[id] \in {"queued", "html_open", "html_write", "pdf_check"}
    /\ pdf' = [pdf EXCEPT ![id] = FALSE]
    /\ UNCHANGED <<conversion_statuses, md, remote, now, convPc, exc, started, loop>>

----------------------------------------------------------------------------
(* The specification *)

Init ==
    /\ conversion_statuses = [id \in {} |-> id]
    /\ md \in [Ids -> {"absent", "complete"}]
    /\ pdf = [id \in Ids |-> FALSE]
    /\ remote \in [Ids -> {"known", "unknown"}]
    /\ now = 1
    /\ convPc = [id \in Ids |-> "idle"]
    /\ exc = [id \in Ids |-> [e |-> None, pdf_e |-> None]]
    /\ hpc = "idle"
    /\ hreq = NoRequest
    /\ hres = NoFields
    /\ result = NoResult
    /\ started = [id \in Ids |-> [jobs |-> 0, fetches |-> 0, conversions |-> 0]]

Convert(id) ==
    \/ HtmlFetch(id) \/ HtmlOpen(id) \/ HtmlWrite(id) \/ HtmlStatus(id) \/ HtmlCompleted(id)
    \/ PdfCheck(id) \/ PdfExtract(id) \/ PdfOpen(id) \/ PdfWrite(id)
    \/ PdfStatus(id) \/ PdfCompleted(id) \/ PdfError(id)
    \/ FailStatus(id) \/ FailCompleted(id) \/ FailError(id)

HandleDownload ==
    \/ \E req \in Requests : Call(req)
    \/ CheckLookup \/ CheckCompleted \/ CheckError \/ CheckMessage
    \/ FullExists \/ FullLookup \/ FullMessage \/ FullCreate \/ Fetch \/ StartConversion

Next ==
    \/ HandleDownload
    \/ \E id \in Ids : Convert(id)
    \/ \E id \in Ids : PdfRemoved(id)

Spec == Init /\ [][Next]_vars

\* The papers of the scenarios of spec 8: arXiv knows 2101.00001 and does not
\* know 9999.99999.  One worker runs, next to requests for both papers; a
\* second worker would share with it no variable but the clock, which no
\* guard reads.
FairInit ==
    /\ Init
    /\ remote = [id \in Ids |-> IF id = "2101.00001" THEN "known" ELSE "unknown"]

\* The executor thread that asyncio.to_thread hands the conversion to is
\* scheduled by the operating system: a worker that can take a step takes it.
\* Nothing is assumed of the callers of handle_download.
FairSpec == FairInit /\ [][Next]_vars /\ \A id \in Ids : WF_vars(Convert(id))

\* convert_pdf_to_markdown called on its own (lines 64-139): every paper has
\* a worker about to start; at least one of them was called for a paper that
\* has no Job, the others were handed a converting Job by handle_download
\* earlier.  The PDF of a paper may or may not be in the storage directory.
DirectInit ==
    /\ \E jobs \in (SUBSET Ids) \ {Ids} :
          /\ conversion_statuses = [id \in jobs |-> ConversionStatus(id, "converting", 0)]
          /\ started = [id \in Ids |->
                           IF id \in jobs
                           THEN [jobs |-> 1, fetches |-> 1, conversions |-> 1]
                           ELSE [jobs |-> 0, fetches |-> 0, conversions |-> 0]]
          /\ pdf \in {p \in [Ids -> BOOLEAN] : \A id \in jobs : p[id]}
    /\ md \in [Ids -> {"absent", "complete"}]
    /\ remote = [id \in Ids |-> "known"]
    /\ now = 1
    /\ convPc = [id \in Ids |-> "queued"]
    /\ exc = [id \in Ids |-> [e |-> None, pdf_e |-> None]]
    /\ hpc = "idle"
    /\ hreq = NoRequest
    /\ hres = NoFields
    /\ result = NoResult

DirectNext ==
    \/ \E id \in Ids : Convert(id)
    \/ \E id \in Ids : PdfRemoved(id)

DirectSpec == DirectInit /\ [][DirectNext]_vars

----------------------------------------------------------------------------
(* Properties *)

\* the event loop takes a step of handle_download
LoopStep == hpc' # hpc

\* the worker of id has returned
ConvDone(id) == convPc[id] = "done"

\* the worker of id is between its start and its return
ConvRunning(id) == convPc[id] \notin {"idle", "done"}

C2_NeverRaises ==
    result # NoResult => result.status \in ResultStatuses

\* a network failure of the fetch, handed back as an answer
C2_Witness ==
    /\ result.status = "error"
    /\ result.message = <<"Error: ", "arXiv unreachable">>
    /\ result.req.paper_id \in Ids
    /\ started[result.req.paper_id].fetches = 1

\* C3: with the .md file present and no Job, a check-only and a full request
\* both answer success with the file's locator, and the step that answers
\* leaves registry, files, workers and the work counters as they were.
C3_ArtifactWithoutJob ==
    [][(/\ hpc \in {"check", "full"}
        /\ LoopStep
        /\ MdExists(hreq.paper_id)
        /\ hreq.paper_id \notin DOMAIN conversion_statuses)
       => (/\ hpc' = "idle"
           /\ result'.status = "success"
           /\ result'.resource_uri = ResourceUri(hreq.paper_id)
           /\ result'.req = hreq
           /\ UNCHANGED <<conversion_statuses, md, pdf, convPc, started, now>>)]_vars

\* a full request answered "already available" for a paper without a Job
C3_Witness ==
    /\ result.status = "success"
    /\ result.message = <<"Paper already available">>
    /\ result.req.check_status = FALSE
    /\ result.req.paper_id \notin DOMAIN conversion_statuses
    /\ md[result.req.paper_id] = "complete"

\* C4: every full request for a paper arXiv does not know, with no .md file
\* on disk, is answered with status error and "Paper <id> not found on arXiv".
C4_UnknownAlwaysNotFound ==
    (/\ result # NoResult
     /\ result.req.paper_id \in Ids
     /\ ~result.req.check_status
     /\ remote[result.req.paper_id] = "unknown"
     /\ ~MdExists(result.req.paper_id))
    => result = NotFound(result.req)

\* C5: when the HTML path failed and the PDF path succeeded, the worker leaves
\* the Job in success with completed_at set and error None, the .md file is
\* complete, and no answer about the paper carries an error text.
C5_FallbackSucceeds ==
    \A id \in Ids :
        (exc[id].e # None /\ exc[id].pdf_e = None)
        => /\ ConvDone(id)
              => /\ conversion_statuses[id].status = "success"
                 /\ conversion_statuses[id].completed_at # None
                 /\ conversion_statuses[id].error = None
                 /\ md[id] = "complete"
           /\ conversion_statuses[id].error = None
           /\ result.req.paper_id = id => result.error \in {Absent, Json(None)}

\* the HTML path failed while writing, the PDF path finished
C5_Witness ==
    \E id \in Ids :
        /\ ConvDone(id)
        /\ exc[id] = [e |-> Some(MdWriteFailed), pdf_e |-> None]
        /\ conversion_statuses[id].status = "success"
        /\ md[id] = "complete"

\* C6: when both paths failed, the worker leaves the Job in error with
\* completed_at set and error set to the PDF path's failure text (pdf_e),
\* whatever the HTML path's failure text was.
C6_BothFail ==
    \A id \in Ids :
        (ConvDone(id) /\ exc[id].pdf_e # None)
        => /\ conversion_statuses[id].status = "error"
           /\ conversion_statuses[id].completed_at # None
           /\ conversion_statuses[id].error # None
           /\ conversion_statuses[id].error = exc[id].pdf_e

\* the raw PDF was gone: the Job carries "PDF file not found", not the HTML failure
C6_Witness ==
    \E id \in Ids :
        /\ ConvDone(id)
        /\ exc[id] = [e |-> Some(HtmlFetchFailed), pdf_e |-> Some(PdfNotFound)]
        /\ conversion_statuses[id].status = "error"
        /\ conversion_statuses[id].error = Some(PdfNotFound)

\* what a check-only call for id, run now without a worker step in between,
\* answers from the Job (lines 177-194)
CheckAnswer(id) ==
    LET job == conversion_statuses[id] IN
    StatusReport([paper_id |-> id, check_status |-> TRUE], job, job, job.status)

\* C7: check-only polling is idempotent once the Job is terminal: after a
\* check-only answer that showed success or error, a check-only call repeated
\* now answers the same status, started_at, completed_at and error.
C7_PollingIdempotent ==
    (/\ result.req.check_status
     /\ result.started_at # Absent
     /\ result.status \in Terminal)
    => LET again == CheckAnswer(result.req.paper_id) IN
       /\ again.status = result.status
       /\ again.started_at = result.started_at
       /\ again.completed_at = result.completed_at
       /\ again.error = result.error

\* C8: a full request that finds a Job for its paper (and found no .md file)
\* answers with the status it reads from that Job and with the Job's
\* started_at, and none of its steps changes the Job, the registry, the files,
\* the workers or the work counters.
C8_InProgressReadOnly ==
    [][(/\ hpc \in {"full_lookup", "full_message"}
        /\ LoopStep
        /\ hreq.paper_id \in DOMAIN conversion_statuses)
       => (/\ UNCHANGED <<conversion_statuses, md, pdf, convPc, started, now>>
           /\ hpc = "full_lookup"
              => /\ hpc' = "full_message"
                 /\ hres'.status = conversion_statuses[hreq.paper_id].status
           /\ hpc = "full_message"
              => /\ hpc' = "idle"
                 /\ result'.req = hreq
                 /\ result'.status = hres.status
                 /\ result'.started_at = Iso(conversion_statuses[hreq.paper_id].started_at)
                 /\ result'.resource_uri = Absent)]_vars

\* a full request answered "error" from the Job of a failed conversion
C8_Witness ==
    \E id \in Ids :
        /\ result.req = [paper_id |-> id, check_status |-> FALSE]
        /\ result.status = "error"
        /\ result.started_at # Absent
        /\ conversion_statuses[id].status = "error"
        /\ ~MdExists(id)

\* C9: a check-only request answers from registry and file system alone: the
\* Job's status when a Job exists, success with the locator when there is no
\* Job but an .md file, unknown when there is neither; and none of its steps
\* creates a Job, starts a download or changes registry, files or workers.
C9_CheckOnly ==
    [][(/\ LoopStep
        /\ \/ hpc = "idle" /\ hpc' = "check"
           \/ hpc \in {"check", "check_completed", "check_error", "check_message"})
       => (/\ UNCHANGED <<conversion_statuses, md, pdf, convPc, started, now>>
           /\ (hpc = "check" /\ hreq.paper_id \in DOMAIN conversion_statuses)
              => /\ hpc' = "check_completed"
                 /\ hres'.status = conversion_statuses[hreq.paper_id].status
           /\ (hpc = "check" /\ hreq.paper_id \notin DOMAIN conversion_statuses)
              => /\ hpc' = "idle"
                 /\ result'.req = hreq
                 /\ IF MdExists(hreq.paper_id)
                    THEN /\ result'.status = "success"
                         /\ result'.resource_uri = ResourceUri(hreq.paper_id)
                    ELSE /\ result'.status = "unknown"
                         /\ result'.resource_uri = Absent
           /\ hpc = "check_message"
              => /\ hpc' = "idle"
                 /\ result'.req = hreq
                 /\ result'.status = hres.status)]_vars

\* a check-only request answered "unknown": no Job, no .md file
C9_Witness ==
    /\ result.req.check_status
    /\ result.status = "unknown"
    /\ result.req.paper_id \notin DOMAIN conversion_statuses
    /\ ~MdExists(result.req.paper_id)

\* C10: a Job is created in downloading, moves only downloading -> converting
\* -> success or error, becomes converting only in the step that follows the
\* finished fetch, has its conversion handed off once and only as it becomes
\* converting, and once its status is success or error neither the status nor
\* completed_at changes again.
C10_Lifecycle ==
    [][\A id \in Ids :
        /\ (id \notin DOMAIN conversion_statuses /\ id \in DOMAIN conversion_statuses')
           => conversion_statuses'[id].status = "downloading"
        /\ id \in DOMAIN conversion_statuses
           => /\ id \in DOMAIN conversion_statuses'
              /\ <<conversion_statuses[id].status, conversion_statuses'[id].status>> \in
                    {<<"downloading", "downloading">>, <<"downloading", "converting">>,
                     <<"converting", "converting">>, <<"converting", "success">>,
                     <<"converting", "error">>, <<"success", "success">>,
                     <<"error", "error">>}
              /\ (conversion_statuses[id].status = "downloading"
                  /\ conversion_statuses'[id].status = "converting")
                 => hpc = "start" /\ hreq.paper_id = id /\ pdf[id]
              /\ conversion_statuses[id].status \in Terminal
                 => conversion_statuses'[id].completed_at
                        = conversion_statuses[id].completed_at
        /\ started'[id].conversions # started[id].conversions
           => /\ started[id].conversions = 0
              /\ conversion_statuses[id].status = "downloading"
              /\ conversion_statuses'[id].status = "converting"
        /\ convPc'[id] = "queued" => convPc[id] \in {"idle", "queued"}]_vars

\* C11: in every reachable state and for every Job, completed_at is set
\* exactly when the status is success or error, and error is set only when the
\* status is error.
C11_FieldsMatchStatus ==
    \A id \in DOMAIN conversion_statuses :
        LET job == conversion_statuses[id] IN
        /\ job.completed_at # None <=> job.status \in Terminal
        /\ job.error # None => job.status = "error"

\* the raw-source fetch of the Job of id has ended without success: the Job is
\* still downloading and the call that created it is past lines 237-238
FetchFailed(id) ==
    /\ id \in DOMAIN conversion_statuses
    /\ conversion_statuses[id].status = "downloading"
    /\ started[id].fetches >= 1
    /\ ~(hpc = "start" /\ hreq.paper_id = id)

\* C12: a Job whose raw-source fetch fails (the call returns from lines
\* 237-238 through an except clause) or has failed stays in the registry
\* exactly as it is, in downloading with completed_at and error None, in that
\* step and through every later step of the event loop and of the workers.
C12_AbandonedInDownloading ==
    [][\A id \in Ids :
        ((hpc = "fetch" /\ hreq.paper_id = id /\ hpc' = "idle") \/ FetchFailed(id))
        => /\ id \in DOMAIN conversion_statuses'
           /\ conversion_statuses'[id] = conversion_statuses[id]
           /\ conversion_statuses[id].completed_at = None
           /\ conversion_statuses[id].error = None
           /\ convPc'[id] = "idle"
           /\ FetchFailed(id)']_vars

\* a check-only poll, made after the failed fetch, still sees "downloading"
C12_Witness ==
    \E id \in Ids :
        /\ FetchFailed(id)
        /\ result.req = [paper_id |-> id, check_status |-> TRUE]
        /\ result.status = "downloading"
        /\ result.completed_at = Json(None)
        /\ result.error = Json(None)

\* status.status of the Job of id; "<no job>" when the registry has no such key
StatusOf(id) ==
    IF id \in DOMAIN conversion_statuses THEN conversion_statuses[id].status ELSE "<no job>"

\* C13: under fair scheduling of the workers every Job that is converting
\* reaches success or error with its worker returned, so that a check-only
\* poll made from then on reads a terminal status; and no step of
\* handle_download moves or stops a worker that has been handed its conversion.
C13_ConversionTerminates ==
    /\ \A id \in Ids :
          (StatusOf(id) = "converting") ~> (StatusOf(id) \in Terminal /\ ConvDone(id))
    /\ [][\A id \in Ids :
            (ConvRunning(id) /\ LoopStep) => convPc'[id] = convPc[id]]_vars

\* a poll after "conversion started" that reads the terminal status of a
\* worker that has returned
C13_Witness ==
    \E id \in Ids :
        /\ ConvDone(id)
        /\ result.req = [paper_id |-> id, check_status |-> TRUE]
        /\ result.status = "success"
        /\ result.completed_at # Json(None)
        /\ result.started_at # Absent

\* C14: the .md file is never partially written: in every reachable state
\* the file of a paper, when it exists, is the complete output of a
\* conversion path that succeeded.
C14_NoPartialArtifact ==
    \A id \in Ids : MdExists(id) => md[id] = "complete"

\* C15: the two request modes never disagree about success: in every
\* reachable state a paper whose .md file exists (a full request answers
\* "success") has no Job or a Job in success (a check-only request does not
\* answer "converting" or "error").
C15_ArtifactImpliesSucceeded ==
    \A id \in Ids : MdExists(id) => StatusOf(id) \in {"<no job>", "success"}

\* C16: a failed conversion is never retried: with the Job of a paper in
\* error and no .md file, each step of a full request for the paper starts no
\* download and no conversion and changes neither registry nor files, and the
\* request answers "error" from the Job.
C16_FailedNeverRetried ==
    [][(/\ hpc \in {"full", "full_lookup", "full_message"}
        /\ LoopStep
        /\ StatusOf(hreq.paper_id) = "error"
        /\ ~MdExists(hreq.paper_id))
       => (/\ UNCHANGED <<conversion_statuses, md, pdf, convPc, started, now>>
           /\ hpc = "full" => hpc' = "full_lookup"
           /\ hpc = "full_lookup" => (hpc' = "full_message" /\ hres'.status = "error")
           /\ (hpc = "full_message" /\ hres.status = "error")
              => /\ hpc' = "idle"
                 /\ result'.req = hreq
                 /\ result'.status = "error"
                 /\ result'.message = <<"Paper conversion ", "error">>)]_vars

\* after to_markdown failed, a later full request is answered from the failed
\* Job, with one Job, one fetch and one conversion on the paper's account
C16_Witness ==
    \E id \in Ids :
        /\ ConvDone(id)
        /\ conversion_statuses[id].error = Some(PdfExtractFailed)
        /\ ~MdExists(id)
        /\ result.req = [paper_id |-> id, check_status |-> FALSE]
        /\ result.message = <<"Paper conversion ", "error">>
        /\ started[id] = [jobs |-> 1, fetches |-> 1, conversions |-> 1]

\* C17: requests are handled one after the other, so a status "downloading",
\* read from a Job or returned in an answer, is that of a Job whose fetch has
\* already failed: no PDF was stored, no worker was handed the paper, and no
\* call is still inside the fetch.
C17_DownloadingMeansFailedFetch ==
    /\ result.status = "downloading"
       => /\ FetchFailed(result.req.paper_id)
          /\ ~pdf[result.req.paper_id]
          /\ convPc[result.req.paper_id] = "idle"
          /\ hpc = "idle"
    /\ hres.status = "downloading"
       => /\ FetchFailed(hreq.paper_id)
          /\ ~pdf[hreq.paper_id]
          /\ hpc \notin {"fetch", "start"}

\* a full request answered "downloading" from the Job a failed fetch left behind
C17_Witness ==
    /\ result.req.check_status = FALSE
    /\ result.status = "downloading"
    /\ result.message = <<"Paper conversion ", "downloading">>
    /\ started[result.req.paper_id].fetches = 1

\* the worker of id takes a step
WorkerStep(id) == convPc'[id] # convPc[id] /\ hpc' = hpc

\* C18: a step of the worker of a paper changes at most the status,
\* completed_at and error of that paper's Job and that paper's .md file: the
\* Job's paper_id and started_at, the keys of the registry, the Jobs and files
\* of the other papers and every PDF stay as they are.
C18_WorkerFrame ==
    [][\A id \in Ids :
        WorkerStep(id)
        => /\ DOMAIN conversion_statuses' = DOMAIN conversion_statuses
           /\ \A other \in DOMAIN conversion_statuses :
                 IF other = id
                 THEN /\ conversion_statuses'[id].paper_id = conversion_statuses[id].paper_id
                      /\ conversion_statuses'[id].started_at
                            = conversion_statuses[id].started_at
                 ELSE conversion_statuses'[other] = conversion_statuses[other]
           /\ \A other \in Ids \ {id} : md'[other] = md[other] /\ convPc'[other] = convPc[other]
           /\ pdf' = pdf]_vars

\* one worker has returned with success while the Job of the other paper,
\* created later, is still being converted
C18_Witness ==
    \E id \in Ids, other \in Ids :
        /\ id # other
        /\ ConvDone(id)
        /\ StatusOf(id) = "success"
        /\ StatusOf(other) = "converting"
        /\ ConvRunning(other)
        /\ conversion_statuses[id].started_at < conversion_statuses[other].started_at
        /\ conversion_statuses[id].completed_at # None

\* the worker of id is about to write a field of its Job (lines 98, 128-129, 138-139)
UpdatingStatus(id) ==
    convPc[id] \in {"html_completed", "pdf_completed", "pdf_error",
                    "fail_completed", "fail_error"}

\* C19: when convert_pdf_to_markdown runs for a paper that has no Job, every
\* status update is skipped: the worker never reaches a write to a Job (on
\* None the write would raise), is never stuck before its return, and none of
\* its steps changes the registry, whether the paths succeed or fail.
C19_NoJobNoOp ==
    /\ [](\A id \in Ids :
            id \notin DOMAIN conversion_statuses
            => /\ ~UpdatingStatus(id)
               /\ ConvRunning(id) => ENABLED Convert(id))
    /\ [][\A id \in Ids :
            (WorkerStep(id) /\ id \notin DOMAIN conversion_statuses)
            => conversion_statuses' = conversion_statuses]_vars

\* a worker without a Job has returned after both paths failed, next to the
\* Job of the other paper
C19_Witness ==
    \E id \in Ids :
        /\ id \notin DOMAIN conversion_statuses
        /\ ConvDone(id)
        /\ exc[id].pdf_e # None
        /\ DOMAIN conversion_statuses = Ids \ {id}

====
